---- MODULE Spec2Model ----
(***************************************************************************)
(* Weavewiki: the App component (Journey navigation and the per-topic      *)
(* content orchestration of its useEffect) together with the parts of the  *)
(* proxy-backed service it consumes, and the gateway (POST /api/generate)   *)
(* that service talks to.                                                  *)
(*                                                                         *)
(* Text is a sequence of one-character strings.  A nullable value          *)
(* (string | null) is None or Some(v).  historyIndex is 0-based as in the  *)
(* source, so the current entry is history[historyIndex + 1].              *)
(* isMindMapView only selects which panel is drawn and is not modelled.    *)
(***************************************************************************)
EXTENDS Integers, Sequences, FiniteSets, TLC

\* ------------------------------------------------------------------ bounds
\* closures of fetchContentAndArt that may be in flight at once
MaxProcs == 2
\* fragments the gateway delivers on one stream
MaxFrags == 2
\* entries of the Journey
MaxHistory == 3
\* characters of a shared topic
MaxTopicLen == 2
\* topics added to the default seed in a shared Journey
MaxShared == 2
\* strings in a related-topics payload of the upstream model
MaxTopics == 6

\* ------------------------------------------------------------ basic values
None == <<>>
Some(v) == <<v>>

\* 'Metacognition', abbreviated to one capital letter
DefaultTopic == <<"M">>

\* keys of componentErrors written by fetchContentAndArt
Features == {"asciiArt", "relatedTopics", "historicalFact", "animatedArt"}

\* ----------------------------------------------------------- text helpers
IsSpace(c) == c = " "

toLowerChar(c) ==
  CASE c = "M" -> "m"
    [] c = "X" -> "x"
    [] c = "Y" -> "y"
    [] c = "W" -> "w"
    [] c = "C" -> "c"
    [] c = "R" -> "r"
    [] c = "U" -> "u"
    [] OTHER -> c

toLowerCase(s) == [i \in 1..Len(s) |-> toLowerChar(s[i])]

RECURSIVE trimStart(_)
trimStart(s) ==
  IF s # <<>> /\ IsSpace(s[1]) THEN trimStart(Tail(s)) ELSE s

RECURSIVE trimEnd(_)
trimEnd(s) ==
  IF s # <<>> /\ IsSpace(s[Len(s)]) THEN trimEnd(SubSeq(s, 1, Len(s) - 1)) ELSE s

trim(s) == trimEnd(trimStart(s))

\* ------------------------------------------------- the journey parameter
\* hexadecimal digits that occur in the modelled locators
IsHex(c) == c \in {"2", "5", "C"}

\* the character a %XY escape stands for; "~" marks a byte that is not
\* valid UTF-8 on its own (0xC2, 0xC5, 0xCC)
ByteChar(h1, h2) ==
  CASE h1 = "2" /\ h2 = "2" -> "\""
    [] h1 = "2" /\ h2 = "5" -> "%"
    [] h1 = "2" /\ h2 = "C" -> ","
    [] h1 = "5" /\ h2 = "2" -> "R"
    [] h1 = "5" /\ h2 = "5" -> "U"
    [] h1 = "5" /\ h2 = "C" -> "\\"
    [] OTHER -> "~"

IsEscape(s) == Len(s) >= 3 /\ s[1] = "%" /\ IsHex(s[2]) /\ IsHex(s[3])

\* URLSearchParams.get: lenient percent-decoding, a bad escape is kept as is
RECURSIVE searchParamsGet(_)
searchParamsGet(s) ==
  IF s = <<>> THEN <<>>
  ELSE IF IsEscape(s)
       THEN <<ByteChar(s[2], s[3])>> \o searchParamsGet(SubSeq(s, 4, Len(s)))
       ELSE <<s[1]>> \o searchParamsGet(Tail(s))

\* decodeURIComponent: strict, [ok |-> FALSE] is the URIError
RECURSIVE decodeURIComponent(_)
decodeURIComponent(s) ==
  IF s = <<>> THEN [ok |-> TRUE, value |-> <<>>]
  ELSE IF s[1] = "%"
       THEN IF IsEscape(s) /\ ByteChar(s[2], s[3]) # "~"
            THEN LET rest == decodeURIComponent(SubSeq(s, 4, Len(s)))
                 IN  [ok |-> rest.ok, value |-> <<ByteChar(s[2], s[3])>> \o rest.value]
            ELSE [ok |-> FALSE, value |-> <<>>]
       ELSE LET rest == decodeURIComponent(Tail(s))
            IN  [ok |-> rest.ok, value |-> <<s[1]>> \o rest.value]

\* String.prototype.split(',')
RECURSIVE splitFrom(_, _)
splitFrom(s, seg) ==
  IF s = <<>> THEN <<seg>>
  ELSE IF s[1] = "," THEN <<seg>> \o splitFrom(Tail(s), <<>>)
       ELSE splitFrom(Tail(s), Append(seg, s[1]))

split(s) == splitFrom(s, <<>>)

\* Array.prototype.filter(Boolean) on strings: drops the empty ones
filterBoolean(list) == SelectSeq(list, LAMBDA t : t # <<>>)

\* param is None when the locator has no journey parameter, else Some(raw)
getInitialHistory(param) ==
  LET journey == IF param = None THEN <<>> ELSE searchParamsGet(param[1])
      parts   == split(journey)
      decoded == [i \in 1..Len(parts) |-> decodeURIComponent(parts[i])]
  IN  IF journey # <<>>
      THEN IF \A i \in 1..Len(parts) : decoded[i].ok
           THEN filterBoolean([i \in 1..Len(parts) |-> decoded[i].value])
           ELSE <<DefaultTopic>>
      ELSE <<DefaultTopic>>

\* raw values of the journey parameter the model starts from
JourneyParams ==
  { None,
    Some(<<>>),
    Some(<<"x">>),
    Some(<<"x", ",", "y">>),
    Some(<<"x", ",", "y", ",", "z">>),
    Some(<<"x", ",", "X">>),
    Some(<<",">>),
    Some(<<"x", ",", "%">>),
    Some(<<"x", "%", "2", "5", "2", "C", "y">>) }

\* ------------------------------------------------------------------ state
VARIABLES
  locationSearch,     \* the journey parameter of window.location.search
  history,            \* the Journey
  historyIndex,       \* 0-based index of the current entry (-1: none)
  content,            \* primary definition text
  translatedContent,
  currentLanguage,
  isLoading,
  error,              \* primary error
  componentErrors,    \* function from feature key to message
  asciiArt,
  isFading,
  relatedTopics,
  difficulty,
  historicalFact,
  animatedArt,
  isConfigValid,      \* None while validating, then Some(TRUE) or Some(FALSE)
  configError,
  run,                \* the closure of fetchContentAndArt of the latest effect run
  stale,              \* the cancelled closures that still have a callback to come
  auxResults,         \* the four results the latest run read, None before
  discarded,          \* a callback of a cancelled closure ran since the latest run began
  delivered,          \* fragments handed to the loop of the latest run
  contentLog,         \* values passed to setContent by the latest run
  translating,        \* the calls of translateText that have not settled
  clipboard,          \* the journey parameter of the locator handleShare copied
  apiKey,             \* process.env.API_KEY of the gateway
  wire                \* the request of the service that is on its way

journeyVars == <<locationSearch, history, historyIndex>>

viewVars == <<content, error, componentErrors, asciiArt, relatedTopics,
              historicalFact, animatedArt, difficulty, isLoading, isFading>>

translationVars == <<translatedContent, currentLanguage>>

configVars == <<isConfigValid, configError>>

orchVars == <<run, stale, auxResults, discarded, delivered, contentLog>>

sideVars == <<translating, clipboard>>

wireVars == <<apiKey, wire>>

vars == <<journeyVars, viewVars, translationVars, configVars, orchVars, sideVars, wireVars>>

\* ---------------------------------------------------------------- service
Fulfilled(v) == [status |-> "fulfilled", value |-> v]
Rejected(m) == [status |-> "rejected", reason |-> m]

\* the message of the Error each auxiliary service function rejects with
AuxErrorMessage(f) ==
  CASE f = "asciiArt"       -> "Could not load art."
    [] f = "relatedTopics"  -> "Could not load related topics."
    [] f = "historicalFact" -> "Could not load historical fact."
    [] f = "animatedArt"    -> "Could not load animation."

\* the values each auxiliary service function can resolve with
AuxValues(f, topic) ==
  CASE f = "asciiArt"       -> {[art |-> <<"art">> \o topic]}
    [] f = "relatedTopics"  -> {<< <<"y">> >>}
    [] f = "historicalFact" -> {Some(<<"fact">> \o topic)}
    [] f = "animatedArt"    -> {[frames |-> <<"f1", "f2", "f3">>]}

\* what Promise.allSettled can hand over for the four calls made for topic
AuxResults(f, topic) ==
  {Fulfilled(v) : v \in AuxValues(f, topic)} \cup {Rejected(AuxErrorMessage(f))}

\* a promise that has not settled
Pending == [status |-> "pending"]

\* the k-th fragment of the body the gateway streams: "Hel", "lo", "Hel", ...
Fragment(k) == IF k % 2 = 1 THEN <<"H", "e", "l">> ELSE <<"l", "o">>

\* streamDefinition's catch block: the notice it yields and the Error it throws
StreamErrorMessage(topic) == <<"Could not generate content for">> \o topic
StreamErrorNotice(topic) == <<"Error: ">> \o StreamErrorMessage(topic)

DifficultyValues == {"Simple"}

\* what validateApiKey can resolve with
ValidateResults ==
  { [isValid |-> TRUE, error |-> None],
    [isValid |-> FALSE, error |-> Some("Could not connect")],
    [isValid |-> FALSE, error |-> Some("Configuration Error")] }

\* ------------------------------------------------------- gateway and wire
\* a message is a sequence of pieces of text; includes() on pieces
Includes(s, sub) ==
  \E i \in 0..(Len(s) - Len(sub)) : SubSeq(s, i + 1, i + Len(sub)) = sub

\* process.env.API_KEY when it is set
Credential == "API_KEY value"

\* JSON values
JStr(s) == [t |-> "string", v |-> s]
JNum(n) == [t |-> "number", v |-> n]
JArr(a) == [t |-> "array", v |-> a]
JObj(o) == [t |-> "object", v |-> o]

\* the text of an upstream response: JSON, other text, or the empty string
JsonText(j) == [kind |-> "json", value |-> j]
PlainText == [kind |-> "plain", value |-> JStr(<<"N", "o">>)]
EmptyText == [kind |-> "empty", value |-> JStr(<<>>)]

\* slice(0, 4) of getRelatedTopics
RelatedLimit == 4
\* the number of frames generateAnimatedAsciiArt asks for
FrameCount == 3

\* the topic strings "t1", "t2", ... of a related-topics payload
Digits == <<"1", "2", "3", "4", "5", "6", "7", "8", "9">>
TopicList(n) == [i \in 1..n |-> JStr(<<"t", Digits[i]>>)]

\* what the upstream model can answer to the request of operation op, as a list
UpstreamTexts(op) ==
  CASE op = "asciiArt" ->
         << JsonText(JObj([art |-> JStr(<<":", "-", ")">>)])),
            JsonText(JObj([art |-> JStr(<<>>)])),
            JsonText(JObj([text |-> JStr(<<":", "-", ")">>)])),
            PlainText, EmptyText >>
    [] op = "animatedArt" ->
         [n \in 1..3 |-> JsonText(JObj([frames |-> JArr([i \in 1..(FrameCount - 2 + n) |-> JStr(<<"f", Digits[i]>>)])]))]
         \o << JsonText(JObj([frames |-> JStr(<<"f">>)])) >>
    [] op = "relatedTopics" ->
         [n \in 1..(MaxTopics + 1) |-> JsonText(JArr(TopicList(n - 1)))]
         \o << JsonText(JArr(<<JStr(<<"t", "1">>), JNum(2)>>)),
               JsonText(JStr(<<"a", "b", "c", "d", "e">>)),
               JsonText(JObj([topics |-> JArr(TopicList(1))])) >>
    [] OTHER -> << JsonText(JStr(<<"o", "k">>)) >>

\* messages of the errors the upstream client library throws
UpstreamErrors == { <<"Gemini API Error">>, <<"API key not valid.">> }

\* the two error bodies of the gateway
KeyMissingError == <<"API key is not configured", " on the server.">>
UpstreamFailure(m) == <<"Failed to generate content from the AI service: ">> \o m

\* responses as fetch hands them to the service
JsonResponse(status, value) == [status |-> status, body |-> [kind |-> "json", value |-> value]]
TextResponse(chunks, ended, aborted) ==
  [status |-> 200,
   body |-> [kind |-> "text", value |-> [chunks |-> chunks, ended |-> ended, aborted |-> aborted]]]
\* a non-2xx answer of the hosting environment whose body is not JSON
HtmlResponse == [status |-> 502, body |-> [kind |-> "html", value |-> <<"<html>">>]]
\* fetch rejects
NetworkFailure == [status |-> 0, body |-> [kind |-> "none", value |-> <<>>]]

\* response.ok
IsOk(r) == r.status >= 200 /\ r.status <= 299

\* response.json().catch(() => ({ error: fallback })) followed by .error
ErrorOf(r, fallback) == IF r.body.kind = "json" THEN r.body.value.error ELSE fallback

\* the body the service sends for operation op
Operations == {"validate", "stream", "asciiArt", "animatedArt", "relatedTopics"}

Request(op, topic) ==
  [ headers  |-> {"Content-Type"},
    stream   |-> (op = "stream"),
    model    |-> IF op \in {"asciiArt", "animatedArt"} THEN "gemini-2.5-flash"
                 ELSE "gemini-flash-lite-latest",
    contents |-> IF op = "validate" THEN <<"test">> ELSE <<op>> \o topic ]

postToProxy(r) ==
  IF r = NetworkFailure THEN Rejected(<<"Failed to fetch">>)
  ELSE IF ~IsOk(r) THEN Rejected(ErrorOf(r, <<"An unknown server error occurred.">>))
  ELSE LET text == r.body.value.text IN
       CASE text.kind = "empty" -> Rejected(<<"API returned an empty response.">>)
         [] text.kind = "plain" -> Rejected(<<"Unexpected token">>)
         [] OTHER -> Fulfilled(text.value)

generateAsciiArt(r) ==
  IF postToProxy(r).status = "fulfilled" THEN postToProxy(r)
  ELSE Rejected(AuxErrorMessage("asciiArt"))

generateAnimatedAsciiArt(r) ==
  IF postToProxy(r).status = "fulfilled" THEN postToProxy(r)
  ELSE Rejected(AuxErrorMessage("animatedArt"))

\* slice exists on arrays and strings; on anything else the call throws
slice(j, n) == [j EXCEPT !.v = SubSeq(@, 1, IF Len(@) < n THEN Len(@) ELSE n)]

\* getRelatedTopics without the slice
getRelatedTopicsWhole(r) ==
  LET topics == postToProxy(r) IN
  IF topics.status = "fulfilled" /\ topics.value.t \in {"array", "string"}
  THEN topics
  ELSE Rejected(AuxErrorMessage("relatedTopics"))

getRelatedTopics(r) ==
  LET topics == postToProxy(r) IN
  IF topics.status = "fulfilled" /\ topics.value.t \in {"array", "string"}
  THEN Fulfilled(slice(topics.value, RelatedLimit))
  ELSE Rejected(AuxErrorMessage("relatedTopics"))

\* the two messages of validateApiKey
ConnectErrorMessage == <<"Could not connect to the Weavewiki backend service.">>
ConfigErrorMessage == <<"Configuration Error: The server is missing its API key.">>

\* validateApiKey that does not look for the gateway's missing-key text
validateApiKeyGeneric(r) ==
  IF r # NetworkFailure /\ IsOk(r) THEN [isValid |-> TRUE, error |-> None]
  ELSE [isValid |-> FALSE, error |-> Some(ConnectErrorMessage)]

validateApiKey(r) ==
  LET message == IF r = NetworkFailure THEN <<"Failed to fetch">>
                 ELSE ErrorOf(r, <<"Could not connect to the backend service.">>) IN
  IF r # NetworkFailure /\ IsOk(r) THEN [isValid |-> TRUE, error |-> None]
  ELSE [isValid |-> FALSE,
        error |-> Some(IF Includes(message, <<"API key is not configured">>)
                       THEN ConfigErrorMessage ELSE ConnectErrorMessage)]

\* what one pull of the generator gives
Yield(chunk) == [kind |-> "yield", value |-> chunk]
Throw(m) == [kind |-> "throw", value |-> m]
Done == [kind |-> "done", value |-> <<>>]
Hangs == [kind |-> "pending", value |-> <<>>]

\* the pulls of streamDefinition(topic) on response r, in order
streamDefinition(topic, r) ==
  LET caught == <<Yield(StreamErrorNotice(topic)), Throw(StreamErrorMessage(topic))>> IN
  IF r = NetworkFailure \/ ~IsOk(r) THEN caught
  ELSE LET b == r.body.value IN
       [i \in 1..Len(b.chunks) |-> Yield(b.chunks[i])]
         \o (IF b.ended THEN <<Done>> ELSE IF b.aborted THEN caught ELSE <<Hangs>>)

\* the result of the service function of op for topic on response r
ServiceResult(op, topic, r) ==
  CASE op = "validate"      -> validateApiKey(r)
    [] op = "stream"        -> streamDefinition(topic, r)
    [] op = "asciiArt"      -> generateAsciiArt(r)
    [] op = "animatedArt"   -> generateAnimatedAsciiArt(r)
    [] op = "relatedTopics" -> getRelatedTopics(r)

\* no request is on its way
NoRequest ==
  [ stage    |-> "idle",
    op       |-> "validate",
    topic    |-> <<>>,
    request  |-> Request("validate", <<>>),
    upstream |-> <<>>,
    written  |-> <<>>,
    failed   |-> FALSE,
    response |-> NetworkFailure,
    result   |-> <<>> ]

\* ---------------------------------------------------------------- closures
\* the locals of one call of fetchContentAndArt and where it is suspended:
\* "delay" (the timer), "aux" (Promise.allSettled), "stream" (a pull of the
\* for-await loop), "rating" (rateDifficulty), "done", "idle" (no closure)
NoClosure ==
  [ pc                 |-> "idle",
    isCancelled        |-> FALSE,
    topic              |-> <<>>,
    results            |-> [f \in Features |-> Pending],
    accumulatedContent |-> <<>>,
    pulled             |-> 0,
    failed             |-> FALSE ]

\* history[historyIndex] ?? 'Metacognition'
TopicAt(h, i) == IF i >= 0 /\ i < Len(h) THEN h[i + 1] ELSE DefaultTopic

currentTopic == TopicAt(history, historyIndex)

\* the closures that still have a callback to come
InFlight == stale \cup (IF run.pc \in {"idle", "done"} THEN {} ELSE {run})

\* closure c goes on as c2
Continue(c, c2) ==
  IF c.isCancelled
  THEN /\ stale' = (stale \ {c}) \cup (IF c2.pc \in {"idle", "done"} THEN {} ELSE {c2})
       /\ run' = run
       /\ discarded' = (discarded \/ c2.pc \in {"idle", "done"})
  ELSE /\ run' = c2
       /\ stale' = stale
       /\ discarded' = discarded

\* closure c has returned; rateDifficulty's promise may still be pending
Returned(c, pc) == [NoClosure EXCEPT !.pc = pc, !.isCancelled = c.isCancelled, !.topic = c.topic]

AllAuxSettled(c) == \A f \in Features : c.results[f].status # "pending"

Init ==
  /\ locationSearch \in JourneyParams
  /\ history = getInitialHistory(locationSearch)
  /\ historyIndex = Len(history) - 1
  /\ content = <<>>
  /\ translatedContent = None
  /\ currentLanguage = "en"
  /\ isLoading = TRUE
  /\ error = None
  /\ componentErrors = <<>>
  /\ asciiArt = None
  /\ isFading = FALSE
  /\ relatedTopics = <<>>
  /\ difficulty = None
  /\ historicalFact = None
  /\ animatedArt = None
  /\ isConfigValid = None
  /\ configError = None
  /\ run = NoClosure
  /\ stale = {}
  /\ auxResults = None
  /\ discarded = FALSE
  /\ delivered = <<>>
  /\ contentLog = <<>>
  /\ translating = {}
  /\ clipboard = None
  /\ apiKey = Some(Credential)
  /\ wire = NoRequest

\* ------------------------------------------------- the effect on a topic
\* ResetView with setTranslatedContent(null) and setCurrentLanguage('en') left out
ResetViewKeepsOverlay ==
  /\ isFading' = TRUE
  /\ isLoading' = TRUE
  /\ error' = None
  /\ content' = <<>>
  /\ asciiArt' = None
  /\ relatedTopics' = <<>>
  /\ difficulty' = None
  /\ historicalFact' = None
  /\ animatedArt' = None
  /\ componentErrors' = <<>>
  /\ UNCHANGED <<translatedContent, currentLanguage>>

\* the synchronous head of fetchContentAndArt: every View-State field is reset
ResetView ==
  /\ isFading' = TRUE
  /\ isLoading' = TRUE
  /\ error' = None
  /\ content' = <<>>
  /\ asciiArt' = None
  /\ relatedTopics' = <<>>
  /\ difficulty' = None
  /\ historicalFact' = None
  /\ animatedArt' = None
  /\ translatedContent' = None
  /\ currentLanguage' = "en"
  /\ componentErrors' = <<>>

\* closure c after isCancelled = true: it returns at its next callback, so
\* the locals it never reads again are left out
Cancelled(c) ==
  [NoClosure EXCEPT !.pc = c.pc, !.isCancelled = TRUE, !.topic = c.topic, !.failed = c.failed]

\* the effect's cleanup applied to the latest closure
Cleanup ==
  stale \cup (IF run.pc \in {"idle", "done"} THEN {} ELSE {Cancelled(run)})

\* cleanup of the previous run, then the body of the effect for topic
EffectRun(topic) ==
  IF topic = <<>>
  THEN /\ stale' = Cleanup
       /\ run' = NoClosure
       /\ UNCHANGED <<viewVars, translationVars, auxResults, discarded, delivered, contentLog>>
  ELSE /\ Cardinality(Cleanup) < MaxProcs
       /\ stale' = Cleanup
       /\ run' = [NoClosure EXCEPT !.pc = "delay", !.topic = topic]
       /\ auxResults' = None
       /\ discarded' = FALSE
       /\ delivered' = <<>>
       /\ contentLog' = <<>>
       /\ ResetView

\* a render with Journey h at index i: the effect runs when its deps changed
Rerender(h, i) ==
  IF isConfigValid = Some(TRUE) /\ TopicAt(h, i) # currentTopic
  THEN EffectRun(TopicAt(h, i))
  ELSE UNCHANGED <<viewVars, translationVars, orchVars>>

\* CheckConfig with an effect that does not test isConfigValid
CheckConfigUngated(r) ==
  /\ isConfigValid = None
  /\ configError' = IF ~r.isValid /\ r.error # None THEN r.error ELSE configError
  /\ isConfigValid' = Some(r.isValid)
  /\ EffectRun(currentTopic)
  /\ UNCHANGED <<journeyVars, sideVars, wireVars>>

\* checkConfig: validateApiKey resolves with r
CheckConfig(r) ==
  /\ isConfigValid = None
  /\ configError' = IF ~r.isValid /\ r.error # None THEN r.error ELSE configError
  /\ isConfigValid' = Some(r.isValid)
  /\ IF r.isValid
     THEN EffectRun(currentTopic)
     ELSE UNCHANGED <<viewVars, translationVars, orchVars>>
  /\ UNCHANGED <<journeyVars, sideVars, wireVars>>

\* ------------------------------------------- callbacks of fetchContentAndArt
\* the 300 ms timer of closure c fires
DelayElapsed(c) ==
  /\ c.pc = "delay"
  /\ IF c.isCancelled
     THEN /\ Continue(c, NoClosure)
          /\ UNCHANGED isFading
     ELSE /\ Continue(c, [c EXCEPT !.pc = "aux"])
          /\ isFading' = FALSE
  /\ UNCHANGED <<journeyVars, translationVars, configVars, sideVars, wireVars, auxResults, delivered, contentLog,
                 content, error, componentErrors, asciiArt, relatedTopics,
                 historicalFact, animatedArt, difficulty, isLoading>>

\* AuxSettle that writes the result of feature f as soon as its promise settles
AuxSettleStores(c, f, r) ==
  /\ c.pc = "aux"
  /\ ~c.isCancelled
  /\ c.results[f] = Pending
  /\ Continue(c, [c EXCEPT !.results[f] = r])
  /\ asciiArt' = IF f = "asciiArt" /\ r.status = "fulfilled" THEN Some(r.value) ELSE asciiArt
  /\ relatedTopics' = IF f = "relatedTopics" /\ r.status = "fulfilled" THEN r.value ELSE relatedTopics
  /\ historicalFact' = IF f = "historicalFact" /\ r.status = "fulfilled" THEN r.value ELSE historicalFact
  /\ animatedArt' = IF f = "animatedArt" /\ r.status = "fulfilled" THEN Some(r.value) ELSE animatedArt
  /\ componentErrors' = IF r.status = "rejected"
                        THEN [k \in DOMAIN componentErrors \cup {f} |->
                                IF k = f THEN r.reason ELSE componentErrors[k]]
                        ELSE componentErrors
  /\ UNCHANGED <<journeyVars, translationVars, configVars, sideVars, wireVars, auxResults, delivered, contentLog,
                 content, error, difficulty, isLoading, isFading>>

\* the promise of the auxiliary call for feature f of closure c settles as r;
\* Promise.allSettled keeps r until the other three have settled (the promises
\* of a cancelled closure settle unobserved)
AuxSettle(c, f, r) ==
  /\ c.pc = "aux"
  /\ ~c.isCancelled
  /\ c.results[f] = Pending
  /\ Continue(c, [c EXCEPT !.results[f] = r])
  /\ UNCHANGED <<journeyVars, viewVars, translationVars, configVars, sideVars, wireVars, auxResults, delivered, contentLog>>

\* the order in which fetchContentAndArt goes through the four results
FeatureOrder == <<"asciiArt", "relatedTopics", "historicalFact", "animatedArt">>

\* WithErrors with updaters that do not spread prev: only the last key survives
WithErrorsNoSpread(prev, out) ==
  LET rej  == {i \in 1..4 : out[FeatureOrder[i]].status = "rejected"}
      last == CHOOSE i \in rej : \A j \in rej : j <= i
  IN  IF rej = {} THEN prev ELSE [k \in {FeatureOrder[last]} |-> out[k].reason]

\* componentErrors after the updaters prev => ({...prev, key: reason.message})
WithErrors(prev, out) ==
  [k \in DOMAIN prev \cup {f \in Features : out[f].status = "rejected"} |->
     IF k \in Features /\ out[k].status = "rejected" THEN out[k].reason ELSE prev[k]]

\* AllSettled as Promise.all would behave: one rejection rejects the await, the
\* function ends with nothing stored and no stream
AllSettledFailFast(c) ==
  LET out == c.results
      ok(f) == out[f].status = "fulfilled" IN
  /\ c.pc = "aux"
  /\ c.isCancelled \/ AllAuxSettled(c)
  /\ IF c.isCancelled
     THEN /\ Continue(c, NoClosure)
          /\ UNCHANGED <<asciiArt, relatedTopics, historicalFact, animatedArt, componentErrors,
                         auxResults>>
     ELSE IF \E f \in Features : ~ok(f)
          THEN /\ Continue(c, Returned(c, "done"))
               /\ UNCHANGED <<asciiArt, relatedTopics, historicalFact, animatedArt,
                              componentErrors, auxResults>>
          ELSE /\ Continue(c, [c EXCEPT !.pc = "stream"])
               /\ auxResults' = Some(out)
               /\ asciiArt' = Some(out["asciiArt"].value)
               /\ relatedTopics' = out["relatedTopics"].value
               /\ historicalFact' = out["historicalFact"].value
               /\ animatedArt' = Some(out["animatedArt"].value)
               /\ componentErrors' = componentErrors
  /\ UNCHANGED <<journeyVars, translationVars, configVars, sideVars, wireVars, delivered, contentLog,
                 content, error, difficulty, isLoading, isFading>>

\* AllSettled that goes on as soon as the first of the four promises settled
AllSettledEarly(c) ==
  LET out == c.results
      ok(f) == out[f].status = "fulfilled" IN
  /\ c.pc = "aux"
  /\ c.isCancelled \/ \E f \in Features : out[f] # Pending
  /\ IF c.isCancelled
     THEN /\ Continue(c, NoClosure)
          /\ UNCHANGED <<asciiArt, relatedTopics, historicalFact, animatedArt, componentErrors,
                         auxResults>>
     ELSE /\ Continue(c, [c EXCEPT !.pc = "stream"])
          /\ auxResults' = Some(out)
          /\ asciiArt' = IF ok("asciiArt") THEN Some(out["asciiArt"].value) ELSE asciiArt
          /\ relatedTopics' = IF ok("relatedTopics") THEN out["relatedTopics"].value ELSE relatedTopics
          /\ historicalFact' = IF ok("historicalFact") THEN out["historicalFact"].value ELSE historicalFact
          /\ animatedArt' = IF ok("animatedArt") THEN Some(out["animatedArt"].value) ELSE animatedArt
          /\ componentErrors' = WithErrors(componentErrors, out)
  /\ UNCHANGED <<journeyVars, translationVars, configVars, sideVars, wireVars, delivered, contentLog,
                 content, error, difficulty, isLoading, isFading>>

\* continuation of Promise.allSettled in closure c: the four results are
\* stored and the for-await loop makes its first pull
AllSettled(c) ==
  LET out == c.results
      ok(f) == out[f].status = "fulfilled" IN
  /\ c.pc = "aux"
  /\ c.isCancelled \/ AllAuxSettled(c)
  /\ IF c.isCancelled
     THEN /\ Continue(c, NoClosure)
          /\ UNCHANGED <<asciiArt, relatedTopics, historicalFact, animatedArt, componentErrors,
                         auxResults>>
     ELSE /\ Continue(c, [c EXCEPT !.pc = "stream"])
          /\ auxResults' = Some(out)
          /\ asciiArt' = IF ok("asciiArt") THEN Some(out["asciiArt"].value) ELSE asciiArt
          /\ relatedTopics' = IF ok("relatedTopics") THEN out["relatedTopics"].value ELSE relatedTopics
          /\ historicalFact' = IF ok("historicalFact") THEN out["historicalFact"].value ELSE historicalFact
          /\ animatedArt' = IF ok("animatedArt") THEN Some(out["animatedArt"].value) ELSE animatedArt
          /\ componentErrors' = WithErrors(componentErrors, out)
  /\ UNCHANGED <<journeyVars, translationVars, configVars, sideVars, wireVars, delivered, contentLog,
                 content, error, difficulty, isLoading, isFading>>

\* ConsumeChunk that publishes the chunk instead of the accumulated text
ConsumeChunkLastOnly(c, c2, chunk) ==
  IF c.isCancelled
  THEN /\ Continue(c, NoClosure)
       /\ UNCHANGED <<content, contentLog>>
  ELSE /\ Continue(c, [c2 EXCEPT !.accumulatedContent = @ \o chunk])
       /\ content' = chunk
       /\ contentLog' = Append(contentLog, chunk)

\* what the loop body does with a chunk the generator yielded to closure c,
\* c2 being c after the pull
ConsumeChunk(c, c2, chunk) ==
  IF c.isCancelled
  THEN /\ Continue(c, NoClosure)
       /\ UNCHANGED <<content, contentLog>>
  ELSE /\ Continue(c, [c2 EXCEPT !.accumulatedContent = @ \o chunk])
       /\ content' = c.accumulatedContent \o chunk
       /\ contentLog' = Append(contentLog, c.accumulatedContent \o chunk)

\* reader.read() of closure c returns a fragment of the gateway's body
StreamChunk(c, frag) ==
  /\ c.pc = "stream"
  /\ ~c.failed
  /\ c.pulled < MaxFrags
  /\ ConsumeChunk(c, [c EXCEPT !.pulled = @ + 1], frag)
  /\ delivered' = IF c.isCancelled THEN delivered ELSE Append(delivered, frag)
  /\ UNCHANGED <<journeyVars, translationVars, configVars, sideVars, wireVars, auxResults,
                 error, componentErrors, asciiArt, relatedTopics,
                 historicalFact, animatedArt, difficulty, isLoading, isFading>>

\* the request or a read of closure c fails: streamDefinition's catch block
\* yields its notice as one more chunk
StreamFail(c) ==
  /\ c.pc = "stream"
  /\ ~c.failed
  /\ ConsumeChunk(c, [c EXCEPT !.failed = TRUE], StreamErrorNotice(c.topic))
  /\ UNCHANGED <<journeyVars, translationVars, configVars, sideVars, wireVars, auxResults, delivered,
                 error, componentErrors, asciiArt, relatedTopics,
                 historicalFact, animatedArt, difficulty, isLoading, isFading>>

\* StreamThrow with the isCancelled tests of the catch and finally blocks left out
StreamThrowUnguarded(c) ==
  /\ c.pc = "stream"
  /\ c.failed
  /\ Continue(c, Returned(c, "done"))
  /\ error' = Some(StreamErrorMessage(c.topic))
  /\ content' = <<>>
  /\ contentLog' = Append(contentLog, <<>>)
  /\ isLoading' = FALSE
  /\ UNCHANGED <<journeyVars, translationVars, configVars, sideVars, wireVars, auxResults, delivered,
                 componentErrors, asciiArt, relatedTopics,
                 historicalFact, animatedArt, difficulty, isFading>>

\* StreamThrow with setContent('') left out of the catch block
StreamThrowKeepsText(c) ==
  /\ c.pc = "stream"
  /\ c.failed
  /\ IF c.isCancelled
     THEN /\ Continue(c, NoClosure)
          /\ UNCHANGED <<error, isLoading>>
     ELSE /\ Continue(c, Returned(c, "done"))
          /\ error' = Some(StreamErrorMessage(c.topic))
          /\ isLoading' = FALSE
  /\ UNCHANGED <<journeyVars, translationVars, configVars, sideVars, wireVars, auxResults, delivered,
                 content, contentLog, componentErrors, asciiArt, relatedTopics,
                 historicalFact, animatedArt, difficulty, isFading>>

\* StreamThrow without the finally block: isLoading is not cleared
StreamThrowNoFinally(c) ==
  /\ c.pc = "stream"
  /\ c.failed
  /\ IF c.isCancelled
     THEN /\ Continue(c, NoClosure)
          /\ UNCHANGED <<error, content, contentLog>>
     ELSE /\ Continue(c, Returned(c, "done"))
          /\ error' = Some(StreamErrorMessage(c.topic))
          /\ content' = <<>>
          /\ contentLog' = Append(contentLog, <<>>)
  /\ UNCHANGED <<journeyVars, translationVars, configVars, sideVars, wireVars, auxResults, delivered,
                 componentErrors, asciiArt, relatedTopics,
                 historicalFact, animatedArt, difficulty, isLoading, isFading>>

\* the pull after the notice: streamDefinition throws, the loop's catch and
\* finally blocks run
StreamThrow(c) ==
  /\ c.pc = "stream"
  /\ c.failed
  /\ IF c.isCancelled
     THEN /\ Continue(c, NoClosure)
          /\ UNCHANGED <<error, content, contentLog, isLoading>>
     ELSE /\ Continue(c, Returned(c, "done"))
          /\ error' = Some(StreamErrorMessage(c.topic))
          /\ content' = <<>>
          /\ contentLog' = Append(contentLog, <<>>)
          /\ isLoading' = FALSE
  /\ UNCHANGED <<journeyVars, translationVars, configVars, sideVars, wireVars, auxResults, delivered,
                 componentErrors, asciiArt, relatedTopics,
                 historicalFact, animatedArt, difficulty, isFading>>

\* closure c after rateDifficulty(accumulatedContent): the body has returned,
\* the call's argument is kept in accumulatedContent
Rating(c) == [Returned(c, "rating") EXCEPT !.accumulatedContent = c.accumulatedContent]

\* StreamEnd that calls rateDifficulty without the test of accumulatedContent
StreamEndRatesEmpty(c) ==
  /\ c.pc = "stream"
  /\ ~c.failed
  /\ IF c.isCancelled
     THEN /\ Continue(c, NoClosure)
          /\ UNCHANGED isLoading
     ELSE /\ Continue(c, Rating(c))
          /\ isLoading' = FALSE
  /\ UNCHANGED <<journeyVars, translationVars, configVars, sideVars, wireVars, auxResults, delivered, contentLog,
                 content, error, componentErrors, asciiArt, relatedTopics,
                 historicalFact, animatedArt, difficulty, isFading>>

\* the body of closure c ends: the loop exits, rateDifficulty may be called,
\* the finally block runs
StreamEnd(c) ==
  /\ c.pc = "stream"
  /\ ~c.failed
  /\ IF c.isCancelled
     THEN /\ Continue(c, NoClosure)
          /\ UNCHANGED isLoading
     ELSE /\ Continue(c, IF c.accumulatedContent # <<>> THEN Rating(c) ELSE Returned(c, "done"))
          /\ isLoading' = FALSE
  /\ UNCHANGED <<journeyVars, translationVars, configVars, sideVars, wireVars, auxResults, delivered, contentLog,
                 content, error, componentErrors, asciiArt, relatedTopics,
                 historicalFact, animatedArt, difficulty, isFading>>

\* rateDifficulty of closure c resolves with d
RatingResolve(c, d) ==
  /\ c.pc = "rating"
  /\ Continue(c, Returned(c, "done"))
  /\ difficulty' = IF c.isCancelled THEN difficulty ELSE Some(d)
  /\ UNCHANGED <<journeyVars, translationVars, configVars, sideVars, wireVars, auxResults, delivered, contentLog,
                 content, error, componentErrors, asciiArt, relatedTopics,
                 historicalFact, animatedArt, isLoading, isFading>>

\* RatingReject that reports the failure in componentErrors like the other
\* features do
RatingRejectSurfaces(c) ==
  /\ c.pc = "rating"
  /\ Continue(c, Returned(c, "done"))
  /\ componentErrors' = IF c.isCancelled THEN componentErrors
                        ELSE [k \in DOMAIN componentErrors \cup {"difficulty"} |->
                                IF k = "difficulty" THEN "Could not rate difficulty."
                                ELSE componentErrors[k]]
  /\ UNCHANGED <<journeyVars, translationVars, configVars, sideVars, wireVars, auxResults, delivered, contentLog,
                 content, error, asciiArt, relatedTopics,
                 historicalFact, animatedArt, difficulty, isLoading, isFading>>

\* rateDifficulty of closure c rejects: logged only
RatingReject(c) ==
  /\ c.pc = "rating"
  /\ Continue(c, Returned(c, "done"))
  /\ UNCHANGED <<journeyVars, viewVars, translationVars, configVars, sideVars, wireVars, auxResults, delivered, contentLog>>

\* --------------------------------------------------------------- navigation
\* navigateToTopic that compares the topics without toLowerCase
navigateToTopicCaseSensitive(newTopic) ==
  LET trimmedTopic == trim(newTopic)
      newHistory   == Append(SubSeq(history, 1, historyIndex + 1), trimmedTopic)
  IN  IF trimmedTopic = <<>> \/ trimmedTopic = currentTopic
      THEN UNCHANGED vars
      ELSE /\ Len(newHistory) <= MaxHistory
           /\ history' = newHistory
           /\ historyIndex' = Len(newHistory) - 1
           /\ Rerender(newHistory, Len(newHistory) - 1)
           /\ UNCHANGED <<locationSearch, configVars, sideVars, wireVars>>

\* navigateToTopic that appends to the whole Journey instead of its slice
navigateToTopicNoTruncate(newTopic) ==
  LET trimmedTopic == trim(newTopic)
      newHistory   == Append(history, trimmedTopic)
  IN  IF trimmedTopic = <<>> \/ toLowerCase(trimmedTopic) = toLowerCase(currentTopic)
      THEN UNCHANGED vars
      ELSE /\ Len(newHistory) <= MaxHistory
           /\ history' = newHistory
           /\ historyIndex' = Len(newHistory) - 1
           /\ Rerender(newHistory, Len(newHistory) - 1)
           /\ UNCHANGED <<locationSearch, configVars, sideVars, wireVars>>

navigateToTopic(newTopic) ==
  LET trimmedTopic == trim(newTopic)
      newHistory   == Append(SubSeq(history, 1, historyIndex + 1), trimmedTopic)
  IN  IF trimmedTopic = <<>> \/ toLowerCase(trimmedTopic) = toLowerCase(currentTopic)
      THEN UNCHANGED vars
      ELSE /\ Len(newHistory) <= MaxHistory
           /\ history' = newHistory
           /\ historyIndex' = Len(newHistory) - 1
           /\ Rerender(newHistory, Len(newHistory) - 1)
           /\ UNCHANGED <<locationSearch, configVars, sideVars, wireVars>>

\* handleHistoryNavigation that takes the index as 1-based
handleHistoryNavigationOffByOne(index) ==
  /\ historyIndex' = index + 1
  /\ Rerender(history, index + 1)
  /\ UNCHANGED <<locationSearch, history, configVars, sideVars, wireVars>>

handleHistoryNavigation(index) ==
  /\ historyIndex' = index
  /\ Rerender(history, index)
  /\ UNCHANGED <<locationSearch, history, configVars, sideVars, wireVars>>

\* the main screen is rendered only once validation succeeded
Ready == isConfigValid = Some(TRUE)

\* SearchBar.handleSubmit with the input holding query
SearchSubmit(query) ==
  /\ Ready
  /\ IF trim(query) # <<>> /\ ~isLoading
     THEN navigateToTopic(trim(query))
     ELSE UNCHANGED vars

\* a word of the displayed definition is clicked
WordClick(word) ==
  /\ Ready
  /\ content # <<>> /\ error = None
  /\ navigateToTopic(word)

\* the i-th related-topic button is clicked
RelatedClick(i) ==
  /\ Ready
  /\ i \in 1..Len(relatedTopics)
  /\ navigateToTopic(relatedTopics[i])

\* the breadcrumb of entry index is clicked
TrailClick(index) ==
  /\ Ready
  /\ Len(history) > 1
  /\ index \in 0..(Len(history) - 1)
  /\ handleHistoryNavigation(index)

\* the position slider is moved to value
SliderChange(value) ==
  /\ Ready
  /\ Len(history) > 1
  /\ value \in 0..(Len(history) - 1)
  /\ handleHistoryNavigation(value)

\* ------------------------------------------------------------- translation
\* codes of the language selector that are modelled (of en, es, fr, ja, de)
Languages == {"en", "es", "fr"}

\* the text the gateway returns for text in language, trimmed
Translated(text, language) == <<language>> \o text

\* translateText: whether it goes to the network and how its promise settles
translateText(text, targetLanguage) ==
  IF targetLanguage = "en"
  THEN {[network |-> FALSE, result |-> Fulfilled(text)]}
  ELSE {[network |-> TRUE, result |-> Fulfilled(Translated(text, targetLanguage))],
        [network |-> TRUE, result |-> Rejected("Could not translate text.")]}

\* handleTranslate without its first line
handleTranslateUnguarded(language) ==
  /\ currentLanguage' = language
  /\ IF language = "en"
     THEN /\ translatedContent' = None
          /\ translating' = translating
     ELSE /\ translatedContent' = translatedContent
          /\ translating' = translating \cup {[text |-> content, language |-> language]}
  /\ UNCHANGED <<journeyVars, viewVars, configVars, orchVars, clipboard, wireVars>>

\* handleTranslate that keeps the overlay when the base language is chosen
handleTranslateKeepsOverlay(language) ==
  IF content = <<>> \/ isLoading
  THEN UNCHANGED vars
  ELSE /\ currentLanguage' = language
       /\ translatedContent' = translatedContent
       /\ translating' = IF language = "en" THEN translating
                         ELSE translating \cup {[text |-> content, language |-> language]}
       /\ UNCHANGED <<journeyVars, viewVars, configVars, orchVars, clipboard, wireVars>>

\* handleTranslate up to its await: the call of translateText stays pending
handleTranslate(language) ==
  IF content = <<>> \/ isLoading
  THEN UNCHANGED vars
  ELSE /\ currentLanguage' = language
       /\ IF language = "en"
          THEN /\ translatedContent' = None
               /\ translating' = translating
          ELSE /\ translatedContent' = translatedContent
               /\ translating' = translating \cup {[text |-> content, language |-> language]}
       /\ UNCHANGED <<journeyVars, viewVars, configVars, orchVars, clipboard, wireVars>>

\* another option of the language selector is chosen
TranslateSelect(language) ==
  /\ Ready
  /\ language # currentLanguage
  /\ handleTranslate(language)

\* TranslateSettle whose catch block replaces the error map and drops the overlay
TranslateSettleClobbers(t, o) ==
  /\ t \in translating
  /\ o.network
  /\ translating' = translating \ {t}
  /\ IF o.result.status = "fulfilled"
     THEN /\ translatedContent' = Some(o.result.value)
          /\ UNCHANGED componentErrors
     ELSE /\ componentErrors' = [k \in {"translation"} |-> "Translation failed."]
          /\ translatedContent' = None
  /\ UNCHANGED <<journeyVars, configVars, orchVars, clipboard, wireVars, currentLanguage,
                 content, error, asciiArt, relatedTopics, historicalFact, animatedArt,
                 difficulty, isLoading, isFading>>

\* the pending call t of translateText settles as o: the rest of handleTranslate
TranslateSettle(t, o) ==
  /\ t \in translating
  /\ o.network
  /\ translating' = translating \ {t}
  /\ IF o.result.status = "fulfilled"
     THEN /\ translatedContent' = Some(o.result.value)
          /\ UNCHANGED componentErrors
     ELSE /\ componentErrors' = [k \in DOMAIN componentErrors \cup {"translation"} |->
                                   IF k = "translation" THEN "Translation failed."
                                   ELSE componentErrors[k]]
          /\ UNCHANGED translatedContent
  /\ UNCHANGED <<journeyVars, configVars, orchVars, clipboard, wireVars, currentLanguage,
                 content, error, asciiArt, relatedTopics, historicalFact, animatedArt,
                 difficulty, isLoading, isFading>>

\* ------------------------------------------------- a request on the wire
appVars == <<journeyVars, viewVars, translationVars, configVars, orchVars, sideVars>>

\* the service function of op calls fetch
ServiceCall(op) ==
  /\ wire.stage = "idle"
  /\ CASE op = "validate" -> isConfigValid = None
       [] op = "stream"   -> run.pc = "stream"
       [] OTHER           -> run.pc = "aux" /\ run.results[op] = Pending
  /\ wire' = [NoRequest EXCEPT !.stage = "sent", !.op = op, !.topic = run.topic,
                               !.request = Request(op, run.topic)]
  /\ UNCHANGED <<appVars, apiKey>>

\* fetch rejects: the request or its answer is lost
NetworkFail ==
  /\ wire.stage = "sent"
  /\ wire' = [wire EXCEPT !.stage = "answered", !.response = NetworkFailure]
  /\ UNCHANGED <<appVars, apiKey>>

\* the hosting environment answers instead of the gateway
ProxyError ==
  /\ wire.stage = "sent"
  /\ wire' = [wire EXCEPT !.stage = "answered", !.response = HtmlResponse]
  /\ UNCHANGED <<appVars, apiKey>>

\* the handler with the test of process.env.API_KEY left out
GatewayReceiveUnguarded ==
  /\ wire.stage = "sent"
  /\ wire' = [wire EXCEPT !.stage = "upstream",
                          !.upstream = Append(@, [apiKey   |-> apiKey,
                                                  stream   |-> wire.request.stream,
                                                  model    |-> wire.request.model,
                                                  contents |-> wire.request.contents])]
  /\ UNCHANGED <<appVars, apiKey>>

\* the handler of POST /api/generate up to its upstream call
GatewayReceive ==
  /\ wire.stage = "sent"
  /\ IF apiKey = None
     THEN wire' = [wire EXCEPT !.stage = "answered",
                               !.response = JsonResponse(500, [error |-> KeyMissingError])]
     ELSE wire' = [wire EXCEPT !.stage = "upstream",
                               !.upstream = Append(@, [apiKey   |-> apiKey,
                                                       stream   |-> wire.request.stream,
                                                       model    |-> wire.request.model,
                                                       contents |-> wire.request.contents])]
  /\ UNCHANGED <<appVars, apiKey>>

\* generateContent resolves: res.json(response)
UpstreamAnswer(text) ==
  /\ wire.stage = "upstream"
  /\ ~wire.request.stream
  /\ wire' = [wire EXCEPT !.stage = "answered",
                          !.response = JsonResponse(200, [text |-> text])]
  /\ UNCHANGED <<appVars, apiKey>>

\* generateContent or generateContentStream rejects with message m
UpstreamReject(m) ==
  /\ wire.stage = "upstream"
  /\ wire' = [wire EXCEPT !.stage = "answered", !.failed = TRUE,
                          !.response = JsonResponse(500, [error |-> UpstreamFailure(m)])]
  /\ UNCHANGED <<appVars, apiKey>>

\* generateContentStream resolves with its iterator
UpstreamStream ==
  /\ wire.stage = "upstream"
  /\ wire.request.stream
  /\ wire' = [wire EXCEPT !.stage = "streaming"]
  /\ UNCHANGED <<appVars, apiKey>>

\* the iterator yields a chunk with text: res.write sends the head and the text
UpstreamChunk ==
  /\ wire.stage = "streaming"
  /\ Len(wire.written) < MaxFrags
  /\ wire' = [wire EXCEPT !.written = Append(@, Fragment(Len(@) + 1))]
  /\ UNCHANGED <<appVars, apiKey>>

\* the iterator is exhausted: res.end()
UpstreamEnd ==
  /\ wire.stage = "streaming"
  /\ wire' = [wire EXCEPT !.stage = "answered",
                          !.response = TextResponse(wire.written, TRUE, FALSE)]
  /\ UNCHANGED <<appVars, apiKey>>

\* the iterator throws m.  Before the first write the catch block answers
\* 500; after it res.status(500).json(...) throws because the head has been
\* sent, and the connection is left open or is torn down
UpstreamThrow(m, aborted) ==
  /\ wire.stage = "streaming"
  /\ wire' = [wire EXCEPT !.stage = "answered", !.failed = TRUE,
                          !.response = IF wire.written = <<>>
                                       THEN JsonResponse(500, [error |-> UpstreamFailure(m)])
                                       ELSE TextResponse(wire.written, FALSE, aborted)]
  /\ UNCHANGED <<appVars, apiKey>>

\* the service function works on the answer
ServiceSettle ==
  /\ wire.stage = "answered"
  /\ wire' = [wire EXCEPT !.stage = "settled",
                          !.result = ServiceResult(wire.op, wire.topic, wire.response)]
  /\ UNCHANGED <<appVars, apiKey>>

\* checkConfig gets the result of validateApiKey
ConfigChecked ==
  /\ wire.stage = "settled"
  /\ wire.op = "validate"
  /\ CheckConfig(wire.result)

\* the promise of an auxiliary call settles with the result of its function
AuxSettled ==
  /\ wire.stage = "settled"
  /\ wire.op \in Features
  /\ AuxSettle(run, wire.op, wire.result)

\* the caller has taken the result
Forget ==
  /\ wire.stage = "settled"
  /\ CASE wire.op = "validate" -> isConfigValid # None
       [] wire.op = "stream"   -> TRUE
       [] OTHER                -> run.results[wire.op] # Pending
  /\ wire' = NoRequest
  /\ UNCHANGED <<appVars, apiKey>>

\* ----------------------------------------------------------------- sharing
\* encodeURIComponent on one character: the unreserved characters stay
encodeChar(c) ==
  CASE c = ","  -> <<"%", "2", "C">>
    [] c = "%"  -> <<"%", "2", "5">>
    [] c = "\"" -> <<"%", "2", "2">>
    [] c = "\\" -> <<"%", "5", "C">>
    [] OTHER    -> <<c>>

RECURSIVE encodeURIComponent(_)
encodeURIComponent(s) ==
  IF s = <<>> THEN <<>> ELSE encodeChar(Head(s)) \o encodeURIComponent(Tail(s))

\* Array.prototype.join(',')
RECURSIVE join(_)
join(list) ==
  IF list = <<>> THEN <<>>
  ELSE IF Len(list) = 1 THEN list[1]
       ELSE list[1] \o <<",">> \o join(Tail(list))

\* the url.search setter: a double quote left in the query is percent-encoded
RECURSIVE urlSearch(_)
urlSearch(s) ==
  IF s = <<>> THEN <<>>
  ELSE (IF Head(s) = "\"" THEN <<"%", "2", "2">> ELSE <<Head(s)>>) \o urlSearch(Tail(s))

\* the journey parameter of the locator handleShare builds for Journey h
shareParam(h) == urlSearch(join([i \in 1..Len(h) |-> encodeURIComponent(h[i])]))

\* the Share Journey button: the locator goes to the clipboard
handleShare ==
  /\ Ready
  /\ clipboard' = Some(shareParam(history))
  /\ UNCHANGED <<journeyVars, viewVars, translationVars, configVars, orchVars, translating, wireVars>>

\* the copied locator is opened: App is constructed from it
OpenShared ==
  /\ clipboard # None
  /\ locationSearch' = clipboard
  /\ history' = getInitialHistory(clipboard)
  /\ historyIndex' = Len(history') - 1
  /\ content' = <<>>
  /\ translatedContent' = None
  /\ currentLanguage' = "en"
  /\ isLoading' = TRUE
  /\ error' = None
  /\ componentErrors' = <<>>
  /\ asciiArt' = None
  /\ isFading' = FALSE
  /\ relatedTopics' = <<>>
  /\ difficulty' = None
  /\ historicalFact' = None
  /\ animatedArt' = None
  /\ isConfigValid' = None
  /\ configError' = None
  /\ run' = NoClosure
  /\ stale' = {}
  /\ auxResults' = None
  /\ discarded' = FALSE
  /\ delivered' = <<>>
  /\ contentLog' = <<>>
  /\ translating' = {}
  /\ clipboard' = clipboard
  /\ UNCHANGED wireVars

\* ------------------------------------------------------------ specification
SearchInputs == {<<" ", "y", " ">>}
WordInputs == {<<"y">>}

Next ==
  \/ \E r \in ValidateResults : CheckConfig(r)
  \/ \E c \in InFlight : DelayElapsed(c)
  \/ \E c \in InFlight : \E f \in Features : \E r \in AuxResults(f, c.topic) : AuxSettle(c, f, r)
  \/ \E c \in InFlight : AllSettled(c)
  \/ \E c \in InFlight : StreamChunk(c, Fragment(c.pulled + 1))
  \/ \E c \in InFlight : StreamFail(c)
  \/ \E c \in InFlight : StreamThrow(c)
  \/ \E c \in InFlight : StreamEnd(c)
  \/ \E c \in InFlight : \E d \in DifficultyValues : RatingResolve(c, d)
  \/ \E c \in InFlight : RatingReject(c)
  \/ \E q \in SearchInputs : SearchSubmit(q)
  \/ \E w \in WordInputs : WordClick(w)
  \/ \E i \in 1..4 : RelatedClick(i)
  \/ \E i \in 0..(MaxHistory - 1) : TrailClick(i)
  \/ \E i \in 0..(MaxHistory - 1) : SliderChange(i)

InitOrch == Init /\ locationSearch = Some(<<"x", ",", "y">>)

Spec == InitOrch /\ [][Next]_vars

\* ------------------------------------------- specification of the Journey
\* every initial locator and richer inputs; the user acts once the work of
\* the previous transition has come to rest (the navigation handlers do not
\* read the closures), and only the related-topics call may fail
JourneySearchInputs == {<<" ", "w", " ">>, <<"X">>, <<" ">>}
JourneyWordInputs == {<<"m">>}

JourneyAuxResults(f, topic) ==
  IF f = "relatedTopics" THEN AuxResults(f, topic)
  ELSE {Fulfilled(v) : v \in AuxValues(f, topic)}

Quiet == InFlight = {}

NextJourney ==
  \/ \E r \in ValidateResults : CheckConfig(r)
  \/ \E c \in InFlight : DelayElapsed(c)
  \/ \E c \in InFlight : \E f \in Features : \E r \in JourneyAuxResults(f, c.topic) : AuxSettle(c, f, r)
  \/ \E c \in InFlight : AllSettled(c)
  \/ \E c \in InFlight : StreamChunk(c, Fragment(c.pulled + 1))
  \/ \E c \in InFlight : StreamFail(c)
  \/ \E c \in InFlight : StreamThrow(c)
  \/ \E c \in InFlight : StreamEnd(c)
  \/ \E c \in InFlight : \E d \in DifficultyValues : RatingResolve(c, d)
  \/ \E c \in InFlight : RatingReject(c)
  \/ Quiet /\ \E q \in JourneySearchInputs : SearchSubmit(q)
  \/ Quiet /\ \E w \in JourneyWordInputs : WordClick(w)
  \/ Quiet /\ \E i \in 1..4 : RelatedClick(i)
  \/ Quiet /\ \E i \in 0..(MaxHistory - 1) : TrailClick(i)
  \/ Quiet /\ \E i \in 0..(MaxHistory - 1) : SliderChange(i)

SpecJourney == Init /\ [][NextJourney]_vars

\* ------------------------------------------------------------ properties
\* every callback that resumes fetchContentAndArt in closure c
Callback(c) ==
  \/ DelayElapsed(c)
  \/ AllSettled(c)
  \/ StreamChunk(c, Fragment(c.pulled + 1))
  \/ StreamFail(c)
  \/ StreamThrow(c)
  \/ StreamEnd(c)
  \/ \E d \in DifficultyValues : RatingResolve(c, d)
  \/ RatingReject(c)

\* C1: a callback of a closure that an earlier transition left behind (end of
\* the delay, the settled auxiliary calls, a fragment, stream failure, stream
\* end, the rating) changes no View-State field.
C1_StaleCallbacksChangeNothing ==
  [][(\E c \in stale : Callback(c)) => UNCHANGED viewVars]_vars

\* a callback of a cancelled closure has run while the newer run shows results
C1_Witness ==
  /\ discarded
  /\ run.pc \in {"stream", "rating", "done"}
  /\ content # <<>>

\* the View-State field of feature f
DataField(f) ==
  CASE f = "asciiArt"       -> asciiArt
    [] f = "relatedTopics"  -> relatedTopics
    [] f = "historicalFact" -> historicalFact
    [] f = "animatedArt"    -> animatedArt

\* the value fetchContentAndArt resets the field of feature f to
DefaultField(f) == IF f = "relatedTopics" THEN <<>> ELSE None

\* the field of feature f holding payload v
Stored(f, v) == IF f \in {"asciiArt", "animatedArt"} THEN Some(v) ELSE v

\* C2: once the latest run has read the four results, every fulfilled feature
\* has its payload in its own field and no key in componentErrors, and every
\* rejected feature has its message under its own key and its field at the
\* reset default.
C2_OutcomesStoredPerFeature ==
  auxResults # None =>
    \A f \in Features :
      LET r == auxResults[1][f] IN
      IF r.status = "fulfilled"
      THEN /\ DataField(f) = Stored(f, r.value)
           /\ f \notin DOMAIN componentErrors
      ELSE /\ DataField(f) = DefaultField(f)
           /\ f \in DOMAIN componentErrors
           /\ componentErrors[f] = AuxErrorMessage(f)

\* art and fact failed, related topics and animation succeeded
C2_Witness ==
  /\ auxResults # None
  /\ auxResults[1]["asciiArt"].status = "rejected"
  /\ auxResults[1]["historicalFact"].status = "rejected"
  /\ auxResults[1]["relatedTopics"].status = "fulfilled"
  /\ auxResults[1]["animatedArt"].status = "fulfilled"
  /\ DOMAIN componentErrors = {"asciiArt", "historicalFact"}
  /\ animatedArt # None

\* C3: whatever subset of the four auxiliary calls failed, the step that
\* leaves Promise.allSettled stores every fulfilled result and starts the
\* stream, and the primary error is never set by an auxiliary failure.
C3_AuxFailuresBlockNothing ==
  /\ [][(run.pc = "aux" /\ run'.pc \notin {"aux", "delay"}) =>
          /\ run'.pc = "stream"
          /\ auxResults' = Some(run.results)
          /\ \A f \in Features :
               run.results[f].status = "fulfilled" =>
                 DataField(f)' = Stored(f, run.results[f].value)]_vars
  /\ [](auxResults # None =>
          /\ run.pc \in {"stream", "rating", "done"}
          /\ error \in {None, Some(StreamErrorMessage(run.topic))})

\* all four auxiliary calls failed and the whole definition was streamed
C3_Witness ==
  /\ auxResults # None
  /\ \A f \in Features : auxResults[1][f].status = "rejected"
  /\ content = <<"H", "e", "l", "l", "o">>
  /\ error = None
  /\ ~isLoading

\* a pull of the for-await loop of closure c
StreamStep(c) ==
  \/ StreamChunk(c, Fragment(c.pulled + 1))
  \/ StreamFail(c)
  \/ StreamEnd(c)

\* C4 as stated: while an auxiliary call of the latest run is pending, the
\* stream can deliver to it.
C4_StreamDoesNotWait ==
  (run.pc = "aux" /\ ~AllAuxSettled(run)) => ENABLED StreamStep(run)

\* C4: the stream of the latest run is started only after all four auxiliary
\* calls have settled and their results are stored; before that no primary
\* text is published and no pull of the stream can happen.
C4_StreamWaitsForAux ==
  /\ run.pc = "stream" => (AllAuxSettled(run) /\ auxResults = Some(run.results))
  /\ run.pc \in {"delay", "aux"} => (content = <<>> /\ contentLog = <<>> /\ ~ENABLED StreamStep(run))

\* three auxiliary calls have settled, the fourth is pending, no text yet
C4_Witness ==
  /\ run.pc = "aux"
  /\ run.results["animatedArt"] = Pending
  /\ \A f \in Features \ {"animatedArt"} : run.results[f] # Pending
  /\ content = <<>>
  /\ ~isFading

RECURSIVE Concat(_)
Concat(texts) == IF texts = <<>> THEN <<>> ELSE Head(texts) \o Concat(Tail(texts))

\* C6: as long as the stream of the latest run has not failed, the values
\* passed to setContent are f1, f1+f2, ..., f1+...+fn for the fragments
\* f1..fn delivered so far, one per fragment, and content is the last.
C6_ContentAccumulates ==
  (~run.failed /\ error = None) =>
    /\ Len(contentLog) = Len(delivered)
    /\ \A i \in 1..Len(delivered) : contentLog[i] = Concat(SubSeq(delivered, 1, i))
    /\ content = Concat(delivered)

\* "Hel", "lo" gave exactly the two updates "Hel", "Hello"
C6_Witness ==
  /\ delivered = << <<"H", "e", "l">>, <<"l", "o">> >>
  /\ contentLog = << <<"H", "e", "l">>, <<"H", "e", "l", "l", "o">> >>
  /\ content = <<"H", "e", "l", "l", "o">>
  /\ run.pc \in {"rating", "done"}

\* the stream of the latest run has failed
StreamFailed == Len(contentLog) > Len(delivered)

\* C7: when the stream of the latest run failed, after any number of
\* fragments, the run ends with content empty, error set to the thrown
\* message, isLoading cleared and rateDifficulty not called.
C7_StreamFailureEndsClean ==
  (StreamFailed /\ run.pc # "stream") =>
    /\ run.pc = "done"
    /\ content = <<>>
    /\ error = Some(StreamErrorMessage(run.topic))
    /\ ~isLoading
    /\ difficulty = None

\* the stream failed after a fragment had been published
C7_Witness ==
  /\ StreamFailed
  /\ Len(delivered) >= 1
  /\ run.pc = "done"
  /\ content = <<>>
  /\ error # None

\* C8 as stated: the Journey always has at least one entry.
C8_JourneyNeverEmpty == Len(history) >= 1

\* a breadcrumb click or a slider move
Jump == \E i \in 0..(MaxHistory - 1) : TrailClick(i) \/ SliderChange(i)

\* C9: whenever the Journey is non-empty the index is one of its positions,
\* and a breadcrumb click or slider move leaves the Journey as it is.
C9_IndexWithinJourney ==
  /\ [](history # <<>> => (0 <= historyIndex /\ historyIndex < Len(history)))
  /\ [][Jump => history' = history]_vars

\* a jump back has been made in a Journey of three entries
C9_Witness ==
  /\ Len(history) = 3
  /\ historyIndex = 0
  /\ ~isLoading

\* the inputs the navigation handlers are given
GoToInputs ==
  SearchInputs \cup WordInputs \cup JourneySearchInputs \cup JourneyWordInputs

\* a go-to-new-topic with input t through one of its three callers
GoTo(t) ==
  \/ ~isLoading /\ SearchSubmit(t)
  \/ WordClick(t)
  \/ \E i \in 1..Len(relatedTopics) : relatedTopics[i] = t /\ RelatedClick(i)

\* C10: a go-to-new-topic whose trimmed input is non-empty and differs
\* case-insensitively from the current topic makes the Journey its first
\* historyIndex + 1 entries followed by the trimmed input and makes the index
\* the last position; the Journey changes in no other way.
C10_BranchAndDiscard ==
  [][/\ \A t \in GoToInputs \cup {<<"y">>} :
          (trim(t) # <<>> /\ toLowerCase(trim(t)) # toLowerCase(currentTopic) /\ GoTo(t)) =>
            /\ history' = Append(SubSeq(history, 1, historyIndex + 1), trim(t))
            /\ historyIndex' = Len(history') - 1
     /\ history' # history =>
          /\ Len(history') = historyIndex + 2
          /\ SubSeq(history', 1, historyIndex + 1) = SubSeq(history, 1, historyIndex + 1)
          /\ historyIndex' = Len(history') - 1]_vars

\* [x, y, z]: a jump to index 0, then a go to w
C10_Witness ==
  /\ locationSearch = Some(<<"x", ",", "y", ",", "z">>)
  /\ history = << <<"x">>, <<"w">> >>
  /\ historyIndex = 1

\* input t makes navigateToTopic return early
NoOpInput(t) == trim(t) = <<>> \/ toLowerCase(trim(t)) = toLowerCase(currentTopic)

\* C11: a go-to-new-topic whose trimmed input is empty or equals the current
\* topic case-insensitively changes neither the Journey nor the index, starts
\* no run of the effect and changes no View-State field.
C11_NoOpNavigation ==
  [][\A t \in GoToInputs :
       (NoOpInput(t) /\ GoTo(t)) => UNCHANGED <<journeyVars, orchVars, viewVars>>]_vars

\* the current topic is x, the search bar accepts input, and submitting X
\* leaves every variable as it is
C11_Witness ==
  /\ currentTopic = <<"x">>
  /\ ~isLoading
  /\ NoOpInput(<<"X">>)
  /\ ENABLED (SearchSubmit(<<"X">>) /\ UNCHANGED vars)

\* ------------------------------------------- specification of the sharing
\* characters of the shared topics: a letter, a comma, a percent sign
ShareAlphabet == {"x", ",", "%"}

ShareTopics == UNION {[1..n -> ShareAlphabet] : n \in 1..MaxTopicLen}

\* Journeys navigateToTopic builds from the default seed: its entries are
\* trimmed and non-empty, and no entry repeats its predecessor
ShareJourneys ==
  { h \in {<<DefaultTopic>> \o j : j \in UNION {[1..n -> ShareTopics] : n \in 0..MaxShared}} :
      \A i \in 1..(Len(h) - 1) : toLowerCase(h[i]) # toLowerCase(h[i + 1]) }

\* a validated shell that has just gone to the last topic of its Journey
InitShare ==
  /\ locationSearch = None
  /\ history \in ShareJourneys
  /\ historyIndex = Len(history) - 1
  /\ content = <<>>
  /\ translatedContent = None
  /\ currentLanguage = "en"
  /\ isLoading = TRUE
  /\ error = None
  /\ componentErrors = <<>>
  /\ asciiArt = None
  /\ isFading = TRUE
  /\ relatedTopics = <<>>
  /\ difficulty = None
  /\ historicalFact = None
  /\ animatedArt = None
  /\ isConfigValid = Some(TRUE)
  /\ configError = None
  /\ run = [NoClosure EXCEPT !.pc = "delay", !.topic = currentTopic]
  /\ stale = {}
  /\ auxResults = None
  /\ discarded = FALSE
  /\ delivered = <<>>
  /\ contentLog = <<>>
  /\ translating = {}
  /\ clipboard = None
  /\ apiKey = Some(Credential)
  /\ wire = NoRequest

NextShare ==
  \/ handleShare
  \/ OpenShared

SpecShare == InitShare /\ [][NextShare]_vars

\* C12 as stated: opening the locator handleShare copied reconstructs the
\* Journey it was built from, with the index at the last position.
C12_ShareRoundTrip ==
  [][OpenShared => (history' = history /\ historyIndex' = Len(history) - 1)]_vars

\* C13: isConfigValid leaves null exactly once, to true when validateApiKey
\* reports success and to false when it reports failure, and never changes
\* again; as long as it is not true no closure of fetchContentAndArt exists,
\* so no auxiliary call, stream or rating call has been made.
C13_ShellGatesOrchestrator ==
  /\ [](isConfigValid # Some(TRUE) =>
          /\ run = NoClosure /\ stale = {}
          /\ auxResults = None /\ delivered = <<>> /\ contentLog = <<>>
          /\ translating = {})
  /\ [][isConfigValid' # isConfigValid =>
          (isConfigValid = None /\ isConfigValid' \in {Some(TRUE), Some(FALSE)})]_vars
  /\ [][\A r \in ValidateResults :
          CheckConfig(r) => (isConfigValid' = Some(r.isValid) /\ (r.isValid <=> run'.pc = "delay"))]_vars

\* the probe failed: the shell shows the configuration error, nothing runs
C13_Witness ==
  /\ isConfigValid = Some(FALSE)
  /\ configError # None
  /\ run = NoClosure

\* --------------------------------------- specification of the translation
\* the Journey is [x, y]; the user moves along the breadcrumb trail once the
\* closures have come to rest, and chooses languages at any time
NextTranslate ==
  \/ \E r \in ValidateResults : CheckConfig(r)
  \/ \E c \in InFlight : DelayElapsed(c)
  \/ \E c \in InFlight : \E f \in Features : \E r \in JourneyAuxResults(f, c.topic) : AuxSettle(c, f, r)
  \/ \E c \in InFlight : AllSettled(c)
  \/ \E c \in InFlight : StreamChunk(c, Fragment(c.pulled + 1))
  \/ \E c \in InFlight : StreamFail(c)
  \/ \E c \in InFlight : StreamThrow(c)
  \/ \E c \in InFlight : StreamEnd(c)
  \/ \E c \in InFlight : \E d \in DifficultyValues : RatingResolve(c, d)
  \/ \E c \in InFlight : RatingReject(c)
  \/ Quiet /\ \E i \in 0..(MaxHistory - 1) : TrailClick(i)
  \/ \E l \in Languages : TranslateSelect(l)
  \/ \E t \in translating : \E o \in translateText(t.text, t.language) : TranslateSettle(t, o)

SpecTranslate == InitOrch /\ [][NextTranslate]_vars

\* C14 as stated: from the reset of a transition until its text is complete
\* (the time in which handleTranslate returns at its first line) no result of
\* translateText is shown: the overlay and the translation error stay absent.
C14_StaleTranslationDiscarded ==
  isLoading => (translatedContent = None /\ "translation" \notin DOMAIN componentErrors)

\* C15: choosing a language while isLoading is set or content is empty
\* issues no call of translateText and leaves currentLanguage,
\* translatedContent and componentErrors as they are.
C15_TranslateRejected ==
  [][\A l \in Languages :
       ((isLoading \/ content = <<>>) /\ TranslateSelect(l)) =>
         UNCHANGED <<translating, currentLanguage, translatedContent, componentErrors>>]_vars

\* text is being streamed, Spanish can be chosen, and choosing it changes
\* nothing
C15_Witness ==
  /\ isLoading
  /\ content # <<>>
  /\ currentLanguage = "en"
  /\ ENABLED (TranslateSelect("es") /\ UNCHANGED vars)

\* C16: choosing en while content is present and isLoading is clear sets
\* translatedContent to null and issues no call of translateText, and
\* translateText with target en resolves with its input without the network.
C16_BaseLanguageClearsOverlay ==
  /\ [][(content # <<>> /\ ~isLoading /\ TranslateSelect("en")) =>
          (translatedContent' = None /\ currentLanguage' = "en" /\ translating' = translating)]_vars
  /\ [](translateText(content, "en") = {[network |-> FALSE, result |-> Fulfilled(content)]})

\* an overlay is shown, and choosing en removes it
C16_Witness ==
  /\ translatedContent # None
  /\ currentLanguage # "en"
  /\ content # <<>>
  /\ ~isLoading
  /\ ENABLED (TranslateSelect("en") /\ translatedContent' = None /\ translating' = translating)

\* how translateText's promise rejects
TranslateRejection == [network |-> TRUE, result |-> Rejected("Could not translate text.")]

\* C17: when a call of translateText rejects, componentErrors gets the key
\* translation and keeps every other entry; content, error and
\* translatedContent stay as they are.
C17_TranslateFailureFrame ==
  [][(\E t \in translating : TranslateSettle(t, TranslateRejection)) =>
       /\ content' = content
       /\ error' = error
       /\ translatedContent' = translatedContent
       /\ DOMAIN componentErrors' = DOMAIN componentErrors \cup {"translation"}
       /\ componentErrors'["translation"] = "Translation failed."
       /\ \A k \in DOMAIN componentErrors \ {"translation"} :
            componentErrors'[k] = componentErrors[k]]_vars

\* a translation failed while an overlay and the related-topics error are shown
C17_Witness ==
  /\ translatedContent # None
  /\ DOMAIN componentErrors = {"relatedTopics", "translation"}
  /\ content # <<>>
  /\ translating = {}

\* ------------------------------------------------------------ the rating
\* rateDifficulty is called in this step by the latest run
RatingIssued == run'.pc = "rating" /\ run' # run

\* C18: rateDifficulty is called by a run at most once, in the step that ends
\* its stream, only when that stream did not fail, accumulated a non-empty
\* text and the run is not cancelled, and with the whole accumulated text,
\* which is the concatenation of the delivered fragments; a cancelled closure
\* never calls it.
C18_RatingOnceAfterStream ==
  /\ [][RatingIssued =>
         /\ run.pc = "stream"
         /\ ~run.failed
         /\ ~run.isCancelled
         /\ run.accumulatedContent # <<>>
         /\ run'.accumulatedContent = run.accumulatedContent
         /\ run'.accumulatedContent = Concat(delivered)
         /\ run'.accumulatedContent = content'
         /\ ~StreamFailed
         /\ run'.topic = currentTopic]_vars
  /\ [][\A c \in stale' : c.pc = "rating" =>
           c \in stale \/ (run.pc = "rating" /\ c = Cancelled(run))]_vars
  /\ [](run.pc = "rating" => (error = None /\ content # <<>>))

\* the rating was requested for "Hello" after both fragments had arrived
C18_Witness ==
  /\ run.pc = "rating"
  /\ run.accumulatedContent = <<"H", "e", "l", "l", "o">>
  /\ delivered = << <<"H", "e", "l">>, <<"l", "o">> >>
  /\ ~isLoading

\* C19: when rateDifficulty rejects, no View-State field changes: no entry is
\* added to componentErrors, error is not set, content stays, and for the
\* latest run difficulty stays absent; the overlay and the language stay too.
C19_RatingFailureSwallowed ==
  [][\A c \in InFlight : RatingReject(c) =>
       /\ componentErrors' = componentErrors
       /\ error' = error
       /\ content' = content
       /\ difficulty' = difficulty
       /\ (c = run => difficulty' = None)
       /\ UNCHANGED <<asciiArt, relatedTopics, historicalFact, animatedArt,
                      isLoading, isFading, translatedContent, currentLanguage>>]_vars

\* the rating of "Hello" was rejected: the run is over, the text is shown and
\* there is neither a difficulty nor an error; the related topics had failed
C19_Witness ==
  /\ run.pc = "done"
  /\ content = <<"H", "e", "l", "l", "o">>
  /\ difficulty = None
  /\ error = None
  /\ ~isLoading
  /\ DOMAIN componentErrors = {"relatedTopics"}

\* ------------------------------------------------------------- the reset
\* the effect runs its body in this step: a topic transition starts
TransitionStarts == run'.pc = "delay" /\ run' # run

\* the fields that are written only by fetchContentAndArt are at their defaults
FetchedFieldsDefault ==
  /\ content = <<>>
  /\ error = None
  /\ asciiArt = None
  /\ animatedArt = None
  /\ historicalFact = None
  /\ difficulty = None
  /\ relatedTopics = <<>>
  /\ isLoading
  /\ DOMAIN componentErrors \subseteq {"translation"}

\* C20: every change of the current Topic of a valid configuration, and the
\* configuration turning valid, starts a transition; the step that starts a
\* transition leaves content empty, error absent, componentErrors empty, the
\* art, the frames, the fact, the difficulty and the overlay absent, the
\* related topics empty, the language "en" and isLoading set, with no result
\* of the new run applied; and until the delay of the new run has elapsed no
\* callback of an earlier run writes a fetched field.
C20_ResetAtTransitionStart ==
  /\ [][(isConfigValid' = Some(TRUE) /\
          (currentTopic' # currentTopic \/ isConfigValid # Some(TRUE))) => TransitionStarts]_vars
  /\ [][TransitionStarts =>
         /\ FetchedFieldsDefault'
         /\ componentErrors' = <<>>
         /\ translatedContent' = None
         /\ currentLanguage' = "en"
         /\ run' = [NoClosure EXCEPT !.pc = "delay", !.topic = currentTopic']
         /\ auxResults' = None
         /\ delivered' = <<>>
         /\ contentLog' = <<>>]_vars
  /\ [](run.pc = "delay" => FetchedFieldsDefault)

\* a click on the first breadcrumb while the text, its Spanish overlay, the
\* difficulty, the art, the fact and the related-topics error are shown
\* resets all of them
C20_Witness ==
  /\ content # <<>>
  /\ translatedContent # None
  /\ currentLanguage = "es"
  /\ difficulty # None
  /\ asciiArt # None
  /\ historicalFact # None
  /\ "relatedTopics" \in DOMAIN componentErrors
  /\ ENABLED (TrailClick(0) /\ TransitionStarts /\ FetchedFieldsDefault'
                /\ componentErrors' = <<>> /\ translatedContent' = None
                /\ currentLanguage' = "en")

\* ------------------------------------ specification of service and gateway
\* one request at a time goes from the service through the gateway to the
\* upstream model and back; the gateway runs with or without its credential
InitWire ==
  /\ locationSearch = Some(<<"x", ",", "y">>)
  /\ history = getInitialHistory(locationSearch)
  /\ historyIndex = Len(history) - 1
  /\ content = <<>>
  /\ translatedContent = None
  /\ currentLanguage = "en"
  /\ isLoading = TRUE
  /\ error = None
  /\ componentErrors = <<>>
  /\ asciiArt = None
  /\ isFading = FALSE
  /\ relatedTopics = <<>>
  /\ difficulty = None
  /\ historicalFact = None
  /\ animatedArt = None
  /\ isConfigValid = None
  /\ configError = None
  /\ run = NoClosure
  /\ stale = {}
  /\ auxResults = None
  /\ discarded = FALSE
  /\ delivered = <<>>
  /\ contentLog = <<>>
  /\ translating = {}
  /\ clipboard = None
  /\ apiKey \in {None, Some(Credential)}
  /\ wire = NoRequest

NextWire ==
  \/ \E op \in Operations : ServiceCall(op)
  \/ NetworkFail
  \/ ProxyError
  \/ GatewayReceive
  \/ \E k \in 1..Len(UpstreamTexts(wire.op)) : UpstreamAnswer(UpstreamTexts(wire.op)[k])
  \/ \E m \in UpstreamErrors : UpstreamReject(m)
  \/ UpstreamStream
  \/ UpstreamChunk
  \/ UpstreamEnd
  \/ \E m \in UpstreamErrors : \E aborted \in BOOLEAN : UpstreamThrow(m, aborted)
  \/ ServiceSettle
  \/ ConfigChecked
  \/ AuxSettled
  \/ Forget
  \/ \E c \in InFlight : DelayElapsed(c)
  \/ \E c \in InFlight : \E r \in AuxResults("historicalFact", c.topic) : AuxSettle(c, "historicalFact", r)
  \/ \E c \in InFlight : AllSettled(c)

SpecWire == InitWire /\ [][NextWire]_vars

\* the service function has worked on a non-2xx answer with a JSON error body
ErrorAnswered(op) ==
  /\ wire.stage = "settled"
  /\ wire.op = op
  /\ wire.response # NetworkFailure
  /\ ~IsOk(wire.response)
  /\ wire.response.body.kind = "json"

\* C21: on a non-2xx answer with error message E the first pull of
\* streamDefinition throws, so no fragment is delivered, and the message of
\* the thrown error includes E.
C21_StreamFetchFailureThrows ==
  ErrorAnswered("stream") =>
    /\ wire.result[1].kind = "throw"
    /\ Includes(wire.result[1].value, wire.response.body.value.error)

\* C22: on a non-2xx answer with JSON error message E the failure the
\* service function reports includes E: the error field of validateApiKey's
\* result, the reason generateAsciiArt and getRelatedTopics reject with.
C22_FailureCarriesGatewayMessage ==
  LET E == wire.response.body.value.error IN
  /\ ErrorAnswered("validate") =>
       (~wire.result.isValid /\ Includes(wire.result.error[1], E))
  /\ \A op \in {"asciiArt", "relatedTopics"} :
       ErrorAnswered(op) =>
         (wire.result.status = "rejected" /\ Includes(<<wire.result.reason>>, E))

\* validateApiKey has worked on an answer to the probe
ProbeSettled == wire.stage = "settled" /\ wire.op = "validate"

\* the answer of the gateway that has no credential
KeyMissingAnswered ==
  /\ wire.response.status = 500
  /\ wire.response.body.kind = "json"
  /\ wire.response.body.value.error = KeyMissingError

C24_UpstreamFailureAnswered ==
  (wire.failed /\ wire.stage \in {"answered", "settled"}) =>
    /\ ~IsOk(wire.response)
    /\ wire.response.body.kind = "json"
    /\ wire.response.body.value.error # <<>>

\* the functions that parse a structured payload
Structured == {"asciiArt", "animatedArt", "relatedTopics"}

\* j has the shape the function of op declares for its payload
ExpectedShape(op, j) ==
  CASE op = "asciiArt" ->
         /\ j.t = "object"
         /\ "art" \in DOMAIN j.v
         /\ j.v.art.t = "string"
         /\ j.v.art.v # <<>>
    [] op = "animatedArt" ->
         /\ j.t = "object"
         /\ "frames" \in DOMAIN j.v
         /\ j.v.frames.t = "array"
         /\ Len(j.v.frames.v) = FrameCount
         /\ \A i \in 1..Len(j.v.frames.v) : j.v.frames.v[i].t = "string"
    [] op = "relatedTopics" ->
         /\ j.t = "array"
         /\ \A i \in 1..Len(j.v) : j.v[i].t = "string"

\* C25: generateAsciiArt, generateAnimatedAsciiArt and getRelatedTopics
\* resolve only with a payload of the expected shape (otherwise they reject
\* with the feature's error), so asciiArt, animatedArt and relatedTopics in
\* View-State never hold a payload of another shape.
C25_PayloadShapeValidated ==
  /\ (wire.stage = "settled" /\ wire.op \in Structured) =>
       IF wire.result.status = "fulfilled"
       THEN ExpectedShape(wire.op, wire.result.value)
       ELSE wire.result = Rejected(AuxErrorMessage(wire.op))
  /\ asciiArt # None => ExpectedShape("asciiArt", asciiArt[1])
  /\ animatedArt # None => ExpectedShape("animatedArt", animatedArt[1])
  /\ (auxResults # None /\ auxResults[1]["relatedTopics"].status = "fulfilled") =>
       ExpectedShape("relatedTopics", relatedTopics)

\* getRelatedTopics has worked on an answer whose text is a JSON array
TopicsAnswered ==
  /\ wire.stage = "settled"
  /\ wire.op = "relatedTopics"
  /\ IsOk(wire.response)
  /\ wire.response.body.value.text.kind = "json"
  /\ wire.response.body.value.text.value.t = "array"

\* C26: for a payload of n topics getRelatedTopics resolves with the first 4
\* in their order when n > 4 and with all of them otherwise, and
\* relatedTopics in View-State is that list: it never has more than 4 entries.
C26_RelatedTopicsAtMostFour ==
  /\ TopicsAnswered =>
       LET sent == wire.response.body.value.text.value.v IN
         /\ wire.result.status = "fulfilled"
         /\ wire.result.value.t = "array"
         /\ wire.result.value.v = (IF Len(sent) > 4 THEN SubSeq(sent, 1, 4) ELSE sent)
  /\ (auxResults # None /\ auxResults[1]["relatedTopics"].status = "fulfilled") =>
       /\ Len(relatedTopics.v) <= 4
       /\ relatedTopics = auxResults[1]["relatedTopics"].value

\* a payload of 6 topics is in View-State as its first 4
C26_Witness ==
  /\ TopicsAnswered
  /\ Len(wire.response.body.value.text.value.v) = 6
  /\ auxResults # None
  /\ relatedTopics = JArr(TopicList(4))

\* the JSON value j has the string k in it
RECURSIVE JMentions(_, _)
JMentions(j, k) ==
  CASE j.t = "string" -> \E i \in 1..Len(j.v) : j.v[i] = k
    [] j.t = "array"  -> \E i \in 1..Len(j.v) : JMentions(j.v[i], k)
    [] j.t = "object" -> \E f \in DOMAIN j.v : JMentions(j.v[f], k)
    [] OTHER          -> FALSE

\* the request body or its headers have the string k in them
RequestMentions(q, k) ==
  \/ k \in q.headers
  \/ q.model = k
  \/ \E i \in 1..Len(q.contents) : q.contents[i] = k

\* the answer r of the gateway has the string k in it
ResponseMentions(r, k) ==
  CASE r.body.kind = "json" ->
         IF "error" \in DOMAIN r.body.value
         THEN \E i \in 1..Len(r.body.value.error) : r.body.value.error[i] = k
         ELSE JMentions(r.body.value.text.value, k)
    [] r.body.kind = "text" ->
         \E i \in 1..Len(r.body.value.chunks) :
           \E n \in 1..Len(r.body.value.chunks[i]) : r.body.value.chunks[i][n] = k
    [] OTHER -> FALSE

NextOverlap ==
  \/ \E r \in ValidateResults : CheckConfig(r)
  \/ \E c \in InFlight : DelayElapsed(c)
  \/ \E c \in InFlight : \E f \in Features : \E r \in JourneyAuxResults(f, c.topic) : AuxSettle(c, f, r)
  \/ \E c \in InFlight : AllSettled(c)
  \/ \E c \in InFlight : StreamChunk(c, Fragment(c.pulled + 1))
  \/ \E c \in InFlight : StreamFail(c)
  \/ \E c \in InFlight : StreamThrow(c)
  \/ \E c \in InFlight : StreamEnd(c)
  \/ \E c \in InFlight : \E d \in DifficultyValues : RatingResolve(c, d)
  \/ \E c \in InFlight : RatingReject(c)
  \/ \E l \in Languages : TranslateSelect(l)
  \/ \E t \in translating : \E o \in translateText(t.text, t.language) : TranslateSettle(t, o)

SpecOverlap == InitOrch /\ [][NextOverlap]_vars

\* C28: on one Topic, once no call of translateText is pending, the overlay
\* is absent when the selected language is "en", and otherwise it is not the
\* translation into a language other than the selected one.
C28_OverlayAgreesWithLanguage ==
  (translating = {} /\ ~isLoading /\ content # <<>>) =>
    IF currentLanguage = "en"
    THEN translatedContent = None
    ELSE translatedContent \in {None, Some(Translated(content, currentLanguage))}

\* text is the concatenation of the first k delivered fragments for some k
GatewayPrefix(text) ==
  \E k \in 0..Len(delivered) : text = Concat(SubSeq(delivered, 1, k))

\* C29: every value passed to setContent for the latest run, and content
\* itself, is the concatenation of a prefix of the fragments the gateway
\* delivered for the current Topic; the notice streamDefinition makes up on
\* a failure is never among them.
C29_OnlyGatewayTextPublished ==
  /\ \A i \in 1..Len(contentLog) : GatewayPrefix(contentLog[i])
  /\ GatewayPrefix(content)

\* ------------------------------------------- specification with progress
\* timers fire, continuations run, and the calls of the service settle: as
\* long as a callback of a closure is due, one of them happens
Progress ==
  \E c \in InFlight :
    \/ Callback(c)
    \/ \E f \in Features : \E r \in AuxResults(f, c.topic) : AuxSettle(c, f, r)

SpecLive == InitOrch /\ [][Next]_vars /\ WF_vars(Progress)

\* the latest run has ended after a failure of the stream or of an auxiliary call
EndedWithFailure ==
  /\ Ready
  /\ run.pc = "done"
  /\ (error # None \/ componentErrors # <<>>)

\* C30: in Ready, when no further transition starts, the latest one comes to
\* its end whatever failed: from some point on isLoading and isFading are
\* false.  And after a run that ended with a failure a topic change (a
\* breadcrumb of another Topic, or a search while the Journey has room)
\* starts a new transition.
C30_TransitionsComplete ==
  /\ (<>[][~TransitionStarts]_vars) => <>[](Ready => (~isLoading /\ ~isFading))
  /\ [](EndedWithFailure =>
          /\ \E i \in 0..(Len(history) - 1) :
               /\ TopicAt(history, i) # currentTopic
               /\ ENABLED (TrailClick(i) /\ TransitionStarts)
          /\ (historyIndex + 2 <= MaxHistory) =>
               ENABLED (SearchSubmit(<<"w">>) /\ TransitionStarts))

\* all four auxiliary calls and the stream have failed and the run is over
C30_Witness ==
  /\ EndedWithFailure
  /\ error # None
  /\ DOMAIN componentErrors = Features
  /\ ~isLoading
  /\ ~isFading

====
